---- MODULE Spec2Model ----
(***************************************************************************)
(* Model of package oasregistry (src/oasregistry/registry.go): the         *)
(* Registry, the OperationBuilder handles it issues, operation-identifier  *)
(* synthesis (generateID) and schema registration (addSchemaAndGetRef).    *)
(*                                                                         *)
(* Go strings that the code indexes (methods, paths, identifiers, package  *)
(* paths, schema names) are sequences of one-character strings; Go's       *)
(* 0-based offsets are kept and converted where a sequence is read.        *)
(* A Go panic is a result record with ok = FALSE and the panic's reason.   *)
(***************************************************************************)
EXTENDS Integers, Sequences, FiniteSets, TLC

VARIABLES
    operationIDs,            \* Registry.operationIDs: set of identifiers
    registeredObjectTypes,   \* Registry.registeredObjectTypes: name -> type
    schemaKeyPrefixesToTrim, \* Registry.schemaKeyPrefixesToTrim
    built,                   \* Registry.built
    t,                       \* Registry.t: "doc" (the document) or "nil"
    paths,                   \* the document's Paths: path -> method -> operation
    components,              \* the document's Components: "nil" or schemas
    schemas,                 \* the document's Components.Schemas: name -> schema
    ops,                     \* the operations allocated so far (the heap)
    modPath,                 \* package variable modPath
    recordedBy,              \* history: the call that recorded each identifier
    firstRef,                \* history: the reference each struct type got first
    textSet,                 \* history: the text fields a setter call has set
    arg,                     \* the arguments of the call made last
    ret                      \* the outcome of the call made last

vars == <<operationIDs, registeredObjectTypes, schemaKeyPrefixesToTrim, built,
          t, paths, components, schemas, ops, modPath, recordedBy, firstRef,
          textSet, arg, ret>>

(***************************************************************************)
(* Strings                                                                 *)
(***************************************************************************)
LowerCase == <<"a","b","c","d","e","f","g","h","i","j","k","l","m",
               "n","o","p","q","r","s","t","u","v","w","x","y","z">>
UpperCase == <<"A","B","C","D","E","F","G","H","I","J","K","L","M",
               "N","O","P","Q","R","S","T","U","V","W","X","Y","Z">>

\* unicode.ToLower / unicode.ToUpper on the characters the model uses
ToLower(c) ==
    IF \E i \in 1..26 : UpperCase[i] = c
    THEN LowerCase[CHOOSE i \in 1..26 : UpperCase[i] = c]
    ELSE c

ToUpper(c) ==
    IF \E i \in 1..26 : LowerCase[i] = c
    THEN UpperCase[CHOOSE i \in 1..26 : LowerCase[i] = c]
    ELSE c

\* s[i] with Go's 0-based index
At(s, i) == s[i + 1]

\* s[a:b]
Slice(s, a, b) == SubSeq(s, a + 1, b)

\* strings.IndexByte(s, c): the 0-based index of the first c, or -1
IndexByte(s, c) ==
    IF \E i \in 1..Len(s) : s[i] = c
    THEN (CHOOSE i \in 1..Len(s) : s[i] = c /\ \A j \in 1..(i - 1) : s[j] # c) - 1
    ELSE -1

\* strings.LastIndexByte(s, c)
LastIndexByte(s, c) ==
    IF \E i \in 1..Len(s) : s[i] = c
    THEN (CHOOSE i \in 1..Len(s) : s[i] = c /\ \A j \in (i + 1)..Len(s) : s[j] # c) - 1
    ELSE -1

\* strings.HasPrefix(s, p)
HasPrefix(s, p) == Len(p) <= Len(s) /\ SubSeq(s, 1, Len(p)) = p

\* the first result of strings.CutPrefix(s, p): s without p, or s itself
CutPrefix(s, p) == IF HasPrefix(s, p) THEN SubSeq(s, Len(p) + 1, Len(s)) ELSE s

\* the characters of s lower-cased, as the loop over method does
MapLower(s) == [i \in 1..Len(s) |-> ToLower(s[i])]

(***************************************************************************)
(* Results of calls                                                        *)
(***************************************************************************)
NoString == <<>>

Panic(reason) == [ok |-> FALSE, err |-> reason, val |-> NoString]
Return(v) == [ok |-> TRUE, err |-> "", val |-> v]

(***************************************************************************)
(* generateID                                                              *)
(***************************************************************************)
\* mutation of matchesIdParam: a placeholder needs more than four bytes
matchesIdParam_Longer(nextWord, curWord) ==
    /\ Len(nextWord) > 4
    /\ At(nextWord, 0) = "{" /\ At(nextWord, Len(nextWord) - 1) = "}"
    /\ ToLower(At(nextWord, Len(nextWord) - 3)) = "i"
    /\ ToLower(At(nextWord, Len(nextWord) - 2)) = "d"
    /\ At(curWord, Len(curWord) - 1) = "s" /\ Len(curWord) > 1

\* the condition "nextWord matches {*Id} (case insensitive)" of getNextWord,
\* with its test of curWord
matchesIdParam(nextWord, curWord) ==
    /\ Len(nextWord) >= 4
    /\ At(nextWord, 0) = "{" /\ At(nextWord, Len(nextWord) - 1) = "}"
    /\ ToLower(At(nextWord, Len(nextWord) - 3)) = "i"
    /\ ToLower(At(nextWord, Len(nextWord) - 2)) = "d"
    /\ At(curWord, Len(curWord) - 1) = "s" /\ Len(curWord) > 1

\* mutation of singular: the word is returned whole
singular_Whole(curWord) == curWord

\* curWord[:(len(curWord) - 1)], the word getNextWord returns before a {*Id}
singular(curWord) == Slice(curWord, 0, Len(curWord) - 1)

\* the closure getNextWord of generateID: the word and the index to go on from
getNextWord(p) ==
    IF p = <<>> THEN [ok |-> FALSE, err |-> "path is empty", word |-> <<>>, next |-> 0]
    ELSE IF At(p, 0) = "{" \/ At(p, 0) = "/"
    THEN [ok |-> FALSE, err |-> "unsupported path format", word |-> <<>>, next |-> 0]
    ELSE
    LET curWordEnd == IndexByte(p, "/") IN
    IF curWordEnd = -1 THEN [ok |-> TRUE, err |-> "", word |-> p, next |-> Len(p)]
    ELSE IF curWordEnd = Len(p) - 1
    THEN [ok |-> FALSE, err |-> "path ends with '/'", word |-> <<>>, next |-> 0]
    ELSE
    LET curWord == Slice(p, 0, curWordEnd)
        nextWordStart == curWordEnd + 1
        idx == IndexByte(Slice(p, nextWordStart, Len(p)), "/")
        nextWordEnd == IF idx = -1 THEN Len(p) ELSE idx + nextWordStart
        nextWord == Slice(p, nextWordStart, nextWordEnd)
    IN
    IF matchesIdParam(nextWord, curWord)
    THEN [ok |-> TRUE, err |-> "", word |-> singular(curWord), next |-> nextWordEnd]
    \* nextWord[0] on an empty nextWord is a run-time panic
    ELSE IF nextWord = <<>>
    THEN [ok |-> FALSE, err |-> "index out of range", word |-> <<>>, next |-> 0]
    ELSE IF At(nextWord, 0) = "{"
    THEN [ok |-> FALSE, err |-> "unsupported path format", word |-> <<>>, next |-> 0]
    ELSE [ok |-> TRUE, err |-> "", word |-> curWord, next |-> curWordEnd]

\* the loop of generateID over path (already without its first byte), from
\* index i with sb written so far
RECURSIVE generateIDLoop(_, _, _)
generateIDLoop(path, i, sb) ==
    IF i >= Len(path) THEN Return(sb)
    ELSE IF i = 0 \/ At(path, i - 1) = "/"
    THEN LET w == getNextWord(Slice(path, i, Len(path))) IN
         IF ~w.ok THEN Panic(w.err)
         ELSE generateIDLoop(path, i + w.next + 1,
                             sb \o <<ToUpper(Head(w.word))>> \o Tail(w.word))
    ELSE generateIDLoop(path, i + 1, sb)

\* generateID(method, path); path[1:] on an empty path is a run-time panic
generateID(method, path) ==
    IF path = <<>> THEN Panic("slice bounds out of range")
    ELSE generateIDLoop(Tail(path), 0, MapLower(method))

(***************************************************************************)
(* Inputs                                                                  *)
(***************************************************************************)
GET == <<"G","E","T">>
POST == <<"P","O","S","T">>
LowerGet == <<"g","e","t">>

\* pieces of paths: the inputs of generateID are the concatenations of at
\* most MaxChunks of them, well-formed templates and malformed ones alike
Chunks == {
    <<"/">>,
    <<"/","u","s","e","r","s">>,
    <<"/","o","r","d","e","r","s">>,
    <<"/","s">>,
    <<"/","{","u","s","e","r","I","d","}">>,
    <<"/","{","o","r","d","e","r","I","d","}">>,
    <<"/","{","i","d","}">>,
    <<"/","{","n","a","m","e","}">>,
    <<"u","s","e","r">> }

MaxChunks == 4

RECURSIVE ChunkPaths(_)
ChunkPaths(n) ==
    IF n = 0 THEN {<<>>}
    ELSE LET shorter == ChunkPaths(n - 1)
         IN shorter \cup {p \o c : p \in shorter, c \in Chunks}

IDMethods == {GET, POST}

(***************************************************************************)
(* New                                                                     *)
(***************************************************************************)
EmptyMap == [x \in {} |-> x]

NoCall == [op |-> "none", ok |-> TRUE, err |-> "", val |-> NoString]
NoArg == [method |-> NoString, path |-> NoString]

Outcome(op, r) == [op |-> op, ok |-> r.ok, err |-> r.err, val |-> r.val]

\* the Registry and the document that New(info, WithSchemaKeyPrefixesToTrim(prefixes...)) builds
New(prefixes) ==
    /\ operationIDs = {}
    /\ registeredObjectTypes = EmptyMap
    /\ schemaKeyPrefixesToTrim = prefixes
    /\ built = FALSE
    /\ t = "doc"
    /\ paths = EmptyMap
    /\ components = "nil"
    /\ schemas = EmptyMap
    /\ ops = <<>>

\* the module path that getModPath reads from the build information
HostModPath == <<"o","/","m">>

(***************************************************************************)
(* SpecID: generateID applied to one method and one path                   *)
(***************************************************************************)
InitID ==
    /\ New(<<>>)
    /\ modPath = HostModPath
    /\ recordedBy = EmptyMap
    /\ firstRef = EmptyMap
    /\ textSet = {}
    /\ arg \in [method : IDMethods, path : ChunkPaths(MaxChunks)]
    /\ ret = NoCall

CallGenerateID ==
    /\ ret.op = "none"
    /\ ret' = Outcome("generateID", generateID(arg.method, arg.path))
    /\ UNCHANGED <<operationIDs, registeredObjectTypes, schemaKeyPrefixesToTrim,
                   built, t, paths, components, schemas, ops, modPath, recordedBy,
                   firstRef, textSet, arg>>

NextID == CallGenerateID

SpecID == InitID /\ [][NextID]_vars

(***************************************************************************)
(* Claims about generateID (SpecID)                                        *)
(***************************************************************************)
UsersPath == <<"/","u","s","e","r","s">>
UserPath == <<"/","u","s","e","r">>
UsersIdPath == <<"/","u","s","e","r","s","/","{","i","d","}">>
UsersNamePath == <<"/","u","s","e","r","s","/","{","n","a","m","e","}">>
UsersUserIdPath == <<"/","u","s","e","r","s","/","{","u","s","e","r","I","d","}">>
UsersUserIdSlashPath == UsersUserIdPath \o <<"/">>
UserOrderPath ==
    UsersUserIdPath \o <<"/","o","r","d","e","r","s","/","{","o","r","d","e","r","I","d","}">>

GetUser == <<"g","e","t","U","s","e","r">>
GetUsers == <<"g","e","t","U","s","e","r","s">>
PostUsers == <<"p","o","s","t","U","s","e","r","s">>
GetUserOrder == <<"g","e","t","U","s","e","r","O","r","d","e","r">>

Generated == ret.op = "generateID"

\* C3 as claimed: identifier synthesis fails for the path /users/{id}
C3_UsersIdFails == (Generated /\ arg.path = UsersIdPath) => ~ret.ok

\* C3 as amended: synthesis succeeds for /users/{id}, giving the lower-cased
\* method followed by User (getUser for GET), because {id} matches {*Id};
\* it fails with a format error for /users/{name}, whose name does not end in id
C3_UsersIdGivesUser ==
    /\ (Generated /\ arg.path = UsersIdPath) =>
           (ret.ok /\ ret.val = MapLower(arg.method) \o <<"U","s","e","r">>)
    /\ (Generated /\ arg.path = UsersNamePath) =>
           (~ret.ok /\ ret.err = "unsupported path format")

C3_Witness ==
    Generated /\ arg.method = GET /\ arg.path = UsersIdPath /\ ret.val = GetUser

\* the '/'-delimited pieces of s
RECURSIVE Split(_)
Split(s) ==
    LET i == IndexByte(s, "/")
    IN IF i = -1 THEN <<s>> ELSE <<Slice(s, 0, i)>> \o Split(Slice(s, i + 1, Len(s)))

IsLiteral(seg) == seg # <<>> /\ seg[1] # "{"

IsIdPlaceholder(seg) ==
    /\ Len(seg) >= 4
    /\ seg[1] = "{" /\ seg[Len(seg)] = "}"
    /\ ToLower(seg[Len(seg) - 2]) = "i" /\ ToLower(seg[Len(seg) - 1]) = "d"

IsPlural(seg) == IsLiteral(seg) /\ Len(seg) > 1 /\ seg[Len(seg)] = "s"

\* a well-formed template: '/' and then non-empty segments, each a literal
\* word or a {...Id} placeholder right after a literal word of length > 1
\* that ends in 's'
WellFormedPath(path) ==
    /\ path # <<>> /\ path[1] = "/"
    /\ LET segs == Split(Tail(path))
       IN \A k \in 1..Len(segs) :
              \/ IsLiteral(segs[k])
              \/ IsIdPlaceholder(segs[k]) /\ k > 1 /\ IsPlural(segs[k - 1])

Pascal(word) == <<ToUpper(Head(word))>> \o Tail(word)

\* the words the rule of C4 emits for the segments from the k-th on
RECURSIVE EmittedWords(_, _)
EmittedWords(segs, k) ==
    IF k > Len(segs) THEN <<>>
    ELSE IF ~IsLiteral(segs[k]) THEN EmittedWords(segs, k + 1)
    ELSE IF k < Len(segs) /\ IsIdPlaceholder(segs[k + 1]) /\ IsPlural(segs[k])
    THEN Pascal(SubSeq(segs[k], 1, Len(segs[k]) - 1)) \o EmittedWords(segs, k + 1)
    ELSE Pascal(segs[k]) \o EmittedWords(segs, k + 1)

ExpectedID(method, path) == MapLower(method) \o EmittedWords(Split(Tail(path)), 1)

\* C4: for every method and well-formed path generateID returns the
\* lower-cased method followed by the Pascal-cased literal words in path
\* order, a plural word before a {...Id} placeholder losing its one trailing
\* 's' and the placeholder emitting nothing; GET /users/{userId} gives
\* getUser, POST /users postUsers, GET /users/{userId}/orders/{orderId}
\* getUserOrder
C4_SynthesisRule ==
    /\ (Generated /\ WellFormedPath(arg.path)) =>
           (ret.ok /\ ret.val = ExpectedID(arg.method, arg.path))
    /\ (Generated /\ arg.method = GET /\ arg.path = UsersUserIdPath) => ret.val = GetUser
    /\ (Generated /\ arg.method = POST /\ arg.path = UsersPath) => ret.val = PostUsers
    /\ (Generated /\ arg.method = GET /\ arg.path = UserOrderPath) => ret.val = GetUserOrder

C4_Witness ==
    /\ Generated /\ arg.method = GET /\ arg.path = UserOrderPath
    /\ ret.ok /\ ret.val = GetUserOrder

\* C5 as claimed: identifier synthesis fails for every path that ends with
\* '/', whether a literal word, a placeholder or nothing precedes the '/'
C5_TrailingSlashFails ==
    (Generated /\ arg.path # <<>> /\ arg.path[Len(arg.path)] = "/") => ~ret.ok

(***************************************************************************)
(* The Registry: AddEndpoint, register, BuildSpec                          *)
(***************************************************************************)
PUT == <<"P","U","T">>
DELETE == <<"D","E","L","E","T","E">>
PATCH == <<"P","A","T","C","H">>

\* the methods register has a case for (http.MethodGet, ...)
SupportedMethods == {GET, POST, PUT, DELETE, PATCH}

\* &openapi3.PathItem{}: no operation under any method (0 is the nil pointer;
\* an operation is named by its index in ops)
EmptyPathItem == [m \in SupportedMethods |-> 0]

\* openapi3.NewOperation()
NewOperation ==
    [OperationID |-> NoString, Summary |-> "", Description |-> "", Tags |-> <<>>,
     RequestBody |-> [set |-> FALSE], Responses |-> [nil |-> TRUE, m |-> EmptyMap]]

\* r.t.Paths.Value(path), or a new PathItem when there is none
PathItemOf(path) == IF path \in DOMAIN paths THEN paths[path] ELSE EmptyPathItem

\* f with key k set to v
MapSet(f, k, v) == [x \in DOMAIN f \cup {k} |-> IF x = k THEN v ELSE f[x]]

\* register(method, path, op): the document's Paths afterwards, or the panic
register(method, path, op) ==
    IF method \notin SupportedMethods THEN Panic("unsupported method")
    ELSE IF PathItemOf(path)[method] = 0 THEN Panic("endpoint is already registered")
    ELSE Return(MapSet(paths, path, [PathItemOf(path) EXCEPT ![method] = op]))

\* mutation of operationIDExists: no identifier counts as used
operationIDExists_Never(id) == FALSE

\* _, exists := r.operationIDs[id]
operationIDExists(id) == id \in operationIDs

\* AddEndpoint(method, path). The operation it allocates is kept in ops only
\* when register returns: after a panic nothing refers to it.
AddEndpoint(method, path) ==
    /\ arg' = [method |-> method, path |-> path]
    /\ IF built
       THEN /\ ret' = Outcome("AddEndpoint", Panic("cannot mutate already built registry"))
            /\ UNCHANGED <<operationIDs, paths, ops, recordedBy>>
       ELSE LET id == generateID(method, path) IN
            IF ~id.ok
            THEN /\ ret' = Outcome("AddEndpoint", Panic(id.err))
                 /\ UNCHANGED <<operationIDs, paths, ops, recordedBy>>
            ELSE IF operationIDExists(id.val)
            THEN /\ ret' = Outcome("AddEndpoint", Panic("operation id already exists"))
                 /\ UNCHANGED <<operationIDs, paths, ops, recordedBy>>
            ELSE LET reg == register(method, path, Len(ops) + 1) IN
                 /\ operationIDs' = operationIDs \cup {id.val}
                 /\ recordedBy' = MapSet(recordedBy, id.val,
                                         [method |-> method, path |-> path])
                 /\ IF ~reg.ok
                    THEN /\ ret' = Outcome("AddEndpoint", Panic(reg.err))
                         /\ UNCHANGED <<paths, ops>>
                    ELSE /\ paths' = reg.val
                         /\ ops' = Append(ops, [NewOperation EXCEPT !.OperationID = id.val])
                         /\ ret' = Outcome("AddEndpoint", Return(Len(ops) + 1))
    /\ UNCHANGED <<registeredObjectTypes, schemaKeyPrefixesToTrim, built, t,
                   components, schemas, modPath, firstRef, textSet>>

\* mutation of BuildSpec: the registry keeps its document and stays unbuilt
BuildSpec_Repeatable ==
    /\ arg' = NoArg
    /\ ret' = Outcome("BuildSpec", Return(t))
    /\ operationIDs' = {}
    /\ recordedBy' = EmptyMap
    /\ registeredObjectTypes' = EmptyMap
    /\ schemaKeyPrefixesToTrim' = <<>>
    /\ UNCHANGED <<built, t>>
    /\ UNCHANGED <<paths, components, schemas, ops, modPath, firstRef, textSet>>

\* BuildSpec()
BuildSpec ==
    /\ arg' = NoArg
    /\ IF built
       THEN /\ ret' = Outcome("BuildSpec", Panic("registry is already built"))
            /\ UNCHANGED <<operationIDs, registeredObjectTypes,
                           schemaKeyPrefixesToTrim, built, t, recordedBy>>
       ELSE IF t = "nil"
       THEN /\ ret' = Outcome("BuildSpec", Panic("registry has no OpenAPI document"))
            /\ UNCHANGED <<operationIDs, registeredObjectTypes,
                           schemaKeyPrefixesToTrim, built, t, recordedBy>>
       ELSE /\ ret' = Outcome("BuildSpec", Return(t))
            /\ built' = TRUE
            /\ operationIDs' = {}
            /\ recordedBy' = EmptyMap
            /\ registeredObjectTypes' = EmptyMap
            /\ schemaKeyPrefixesToTrim' = <<>>
            /\ t' = "nil"
    /\ UNCHANGED <<paths, components, schemas, ops, modPath, firstRef, textSet>>

(***************************************************************************)
(* Spec: a Registry from New, its endpoints added and the document built   *)
(***************************************************************************)
UsersSlashPath == <<"/","u","s","e","r","s","/">>

EndpointMethods == {GET, POST, LowerGet}
EndpointPaths == {UsersPath, UsersUserIdPath, UserPath, UsersSlashPath}

Init ==
    /\ New(<<>>)
    /\ modPath = HostModPath
    /\ recordedBy = EmptyMap
    /\ firstRef = EmptyMap
    /\ textSet = {}
    /\ arg = NoArg
    /\ ret = NoCall

AddEndpointCall == \E method \in EndpointMethods, path \in EndpointPaths :
                       AddEndpoint(method, path)

Next == AddEndpointCall \/ BuildSpec

Spec == Init /\ [][Next]_vars

(***************************************************************************)
(* Claims about AddEndpoint (Spec)                                         *)
(***************************************************************************)
\* the operations the document holds: those some path item points to
HeldOperations == {paths[p][m] : p \in DOMAIN paths, m \in SupportedMethods} \ {0}

\* C1 as claimed: on a registry not yet built, AddEndpoint with a supported
\* method, a well-formed path, an unused identifier and an unregistered
\* (method, path) returns a handle, and the document then holds under that
\* path and method one operation carrying the synthesized identifier
C1_ValidAddEndpointSucceeds ==
    [][(/\ ret'.op = "AddEndpoint"
        /\ ~built
        /\ arg'.method \in SupportedMethods
        /\ WellFormedPath(arg'.path)
        /\ generateID(arg'.method, arg'.path).ok
        /\ generateID(arg'.method, arg'.path).val \notin operationIDs
        /\ PathItemOf(arg'.path)[arg'.method] = 0)
       => (/\ ret'.ok
           /\ arg'.path \in DOMAIN paths'
           /\ paths'[arg'.path][arg'.method] = ret'.val
           /\ ret'.val \in 1..Len(ops')
           /\ ops'[ret'.val].OperationID = generateID(arg'.method, arg'.path).val)]_vars

\* C7 as claimed: a failing AddEndpoint (unsupported method, malformed path,
\* duplicate identifier, duplicate (method, path)) leaves the set of used
\* identifiers and the document's paths as they were
C7_FailedAddEndpointChangesNothing ==
    [][(ret'.op = "AddEndpoint" /\ ~ret'.ok)
       => (operationIDs' = operationIDs /\ paths' = paths)]_vars

\* no two operations the document holds share an operation identifier
UniqueOperationIDs ==
    \A i \in HeldOperations, j \in HeldOperations :
        i # j => ops[i].OperationID # ops[j].OperationID

\* C10: AddEndpoint fails, for a used identifier, when the identifier
\* synthesized from (method, path) was recorded by an earlier AddEndpoint,
\* whatever path that one had, and records or stores nothing; no two
\* operations held by the document share an identifier
C10_UsedIdentifierRejected ==
    /\ []UniqueOperationIDs
    /\ [][(/\ ret'.op = "AddEndpoint"
           /\ ~built
           /\ generateID(arg'.method, arg'.path).ok
           /\ generateID(arg'.method, arg'.path).val \in operationIDs)
          => (/\ ~ret'.ok
              /\ ret'.err = "operation id already exists"
              /\ UNCHANGED <<operationIDs, paths, ops>>)]_vars

\* GET /user is refused for its identifier getUser while GET /users/{userId},
\* which gives the same identifier, was never refused for it
C10_Witness ==
    /\ ret.op = "AddEndpoint" /\ arg.method = GET /\ arg.path = UserPath
    /\ ~ret.ok /\ ret.err = "operation id already exists"
    /\ GetUser \in DOMAIN recordedBy
    /\ recordedBy[GetUser] = [method |-> GET, path |-> UsersUserIdPath]

(***************************************************************************)
(* Types and getObjectTypeName                                             *)
(***************************************************************************)
\* a struct type as reflect.Type describes it: PkgPath(), Name(), and whether
\* the schema generator finds a cycle in it
StructType(pkgPath, name, cyclic) ==
    [kind |-> "struct", pkgPath |-> pkgPath, name |-> name, cyclic |-> cyclic]

\* the package path with its components Pascal-cased and '/' and '-' dropped:
\* the loop over pkgPath from its i-th character (1-based) on
RECURSIVE pascalCasePath(_, _)
pascalCasePath(pkgPath, i) ==
    IF i > Len(pkgPath) THEN <<>>
    ELSE LET c == pkgPath[i] IN
         IF c # "/" /\ c # "-"
         THEN IF i = 1 \/ pkgPath[i - 1] = "/" \/ pkgPath[i - 1] = "-"
              THEN <<ToUpper(c)>> \o pascalCasePath(pkgPath, i + 1)
              ELSE <<c>> \o pascalCasePath(pkgPath, i + 1)
         ELSE pascalCasePath(pkgPath, i + 1)

\* mutation of trimPrefixes: the loop ends at the first prefix that was cut
RECURSIVE trimPrefixes_FirstMatch(_, _)
trimPrefixes_FirstMatch(res, prefixes) ==
    IF prefixes = <<>> THEN res
    ELSE IF HasPrefix(res, Head(prefixes)) THEN CutPrefix(res, Head(prefixes))
    ELSE trimPrefixes_FirstMatch(res, Tail(prefixes))

\* for _, p := range r.schemaKeyPrefixesToTrim { res, _ = strings.CutPrefix(res, p) }
RECURSIVE trimPrefixes(_, _)
trimPrefixes(res, prefixes) ==
    IF prefixes = <<>> THEN res
    ELSE trimPrefixes(CutPrefix(res, Head(prefixes)), Tail(prefixes))

\* the package path getObjectTypeName goes on with: pkgPath without the
\* organization and, where it follows, the module name of modPath
scopedPkgPath(pkgPath) ==
    IF modPath = <<>> THEN Return(pkgPath)
    ELSE LET modOrgEnd == LastIndexByte(modPath, "/") + 1
             modOrg == Slice(modPath, 0, modOrgEnd)
         IN IF modOrgEnd = 0 THEN Panic("type package path format not supported")
            ELSE IF ~HasPrefix(pkgPath, modOrg)
            THEN Panic("type package does not belong to same org")
            ELSE Return(CutPrefix(CutPrefix(pkgPath, modOrg),
                                  Slice(modPath, modOrgEnd, Len(modPath))))

\* the name before the configured prefixes are trimmed
untrimmedName(ty, scoped) == pascalCasePath(scoped, 1) \o ty.name

\* the closure getObjectTypeName of addSchemaAndGetRef
getObjectTypeName(ty) ==
    IF ty.pkgPath = <<>> THEN Panic("unexpected empty type package path")
    ELSE LET scoped == scopedPkgPath(ty.pkgPath) IN
         IF ~scoped.ok THEN scoped
         ELSE Return(trimPrefixes(untrimmedName(ty, scoped.val), schemaKeyPrefixesToTrim))

(***************************************************************************)
(* SpecName: getObjectTypeName applied to one struct type, under one       *)
(* module path of the host program and one list of prefixes to trim        *)
(***************************************************************************)
Foo == <<"F","o","o">>

NamePkgPaths == {
    <<"o","/","m","/","a","-","b">>,
    <<"o","/","m","/","a","/","b">>,
    <<"o","/","m","/","c">>,
    <<"o","/","m">>,
    <<"o","/","m","x","/","c">>,
    <<"x","/","y">>,
    <<>> }

NameModPaths == {HostModPath, <<>>, <<"m">>}

NamePrefixes == {<<"A">>, <<"B">>, <<"A","B">>, <<"C">>}

MaxPrefixes == 2

\* the lists of at most n prefixes
RECURSIVE PrefixLists(_)
PrefixLists(n) ==
    IF n = 0 THEN {<<>>}
    ELSE LET shorter == PrefixLists(n - 1)
         IN shorter \cup {Append(l, p) : l \in shorter, p \in NamePrefixes}

InitName ==
    /\ \E prefixes \in PrefixLists(MaxPrefixes) : New(prefixes)
    /\ modPath \in NameModPaths
    /\ recordedBy = EmptyMap
    /\ firstRef = EmptyMap
    /\ textSet = {}
    /\ arg \in {[type |-> StructType(pkg, Foo, FALSE)] : pkg \in NamePkgPaths}
    /\ ret = NoCall

CallGetObjectTypeName ==
    /\ ret.op = "none"
    /\ ret' = Outcome("getObjectTypeName", getObjectTypeName(arg.type))
    /\ UNCHANGED <<operationIDs, registeredObjectTypes, schemaKeyPrefixesToTrim,
                   built, t, paths, components, schemas, ops, modPath, recordedBy,
                   firstRef, textSet, arg>>

NextName == CallGetObjectTypeName

SpecName == InitName /\ [][NextName]_vars

(***************************************************************************)
(* Claims about the prefixes to trim (SpecName)                            *)
(***************************************************************************)
Named == ret.op = "getObjectTypeName" /\ ret.ok

\* the name derived from the type before any prefix is trimmed
DerivedName == untrimmedName(arg.type, scopedPkgPath(arg.type.pkgPath).val)

ABFoo == <<"A","B","F","o","o">>

\* the configured prefixes that are prefixes of name, by position
MatchingPrefixes(name) ==
    {k \in 1..Len(schemaKeyPrefixesToTrim) : HasPrefix(name, schemaKeyPrefixesToTrim[k])}

\* name without the first configured prefix that is a prefix of it
FirstMatchTrimmed(name) ==
    IF MatchingPrefixes(name) = {} THEN name
    ELSE LET k == CHOOSE k \in MatchingPrefixes(name) :
                      \A j \in MatchingPrefixes(name) : k <= j
         IN SubSeq(name, Len(schemaKeyPrefixesToTrim[k]) + 1, Len(name))

\* C6 as claimed: only the first configured prefix that is a prefix of the
\* derived name is stripped, once, and no later prefix is stripped from what
\* remains (with prefixes [A, B] the derived name ABFoo becomes BFoo)
C6_FirstMatchWins == Named => ret.val = FirstMatchTrimmed(DerivedName)

\* what remains of name after the first k configured prefixes had their turn
Remaining[k \in 0..MaxPrefixes + 1] ==
    IF k = 0 THEN DerivedName
    ELSE IF k > Len(schemaKeyPrefixesToTrim) THEN Remaining[k - 1]
    ELSE IF HasPrefix(Remaining[k - 1], schemaKeyPrefixesToTrim[k])
    THEN SubSeq(Remaining[k - 1], Len(schemaKeyPrefixesToTrim[k]) + 1, Len(Remaining[k - 1]))
    ELSE Remaining[k - 1]

\* C6 as amended: every configured prefix has its turn, in configuration
\* order, and each one that is a prefix of what remains at its turn is
\* stripped from it once (with prefixes [A, B] the derived name ABFoo
\* becomes Foo, with [B, A] it becomes BFoo)
C6_EveryPrefixTrimmedInOrder ==
    /\ Named => ret.val = Remaining[Len(schemaKeyPrefixesToTrim)]
    /\ (Named /\ DerivedName = ABFoo /\ schemaKeyPrefixesToTrim = << <<"A">>, <<"B">> >>)
           => ret.val = Foo
    /\ (Named /\ DerivedName = ABFoo /\ schemaKeyPrefixesToTrim = << <<"B">>, <<"A">> >>)
           => ret.val = <<"B">> \o Foo

C6_Witness ==
    /\ Named /\ DerivedName = ABFoo
    /\ schemaKeyPrefixesToTrim = << <<"A">>, <<"B">> >>
    /\ ret.val = Foo

(***************************************************************************)
(* addSchemaAndGetRef                                                      *)
(***************************************************************************)
IntType == [kind |-> "int"]
MapType == [kind |-> "map"]
PointerType == [kind |-> "ptr"]
SliceOf(elem) == [kind |-> "slice", elem |-> elem]

ArrayOf(elem) == [kind |-> "array", elem |-> elem]

\* mutation of UnsupportedKinds: pointers are not refused
UnsupportedKinds_NoPointer == {"chan", "func", "interface", "unsafeptr", "invalid"}

UnsupportedKinds == {"chan", "func", "interface", "ptr", "unsafeptr", "invalid"}

\* &openapi3.SchemaRef{Ref: "#/components/schemas/" + objectTypeName}
NamedRef(name) == [ref |-> <<"#/components/schemas/">> \o name]

\* mutation of ArraySchemaRef: the element's reference stands for the collection
ArraySchemaRef_Flat(ref) == ref

\* &openapi3.SchemaRef{Value: schema} with schema.Items = ref
ArraySchemaRef(ref) == [array |-> ref]

\* what gen.NewSchemaRefForValue returns for a value of type ty
GeneratedSchema(ty) == [schemaOf |-> ty]

\* the outcome of addSchemaAndGetRef together with the catalog it leaves
Resolved(ok, err, val, comps, schs, regs) ==
    [ok |-> ok, err |-> err, val |-> val,
     components |-> comps, schemas |-> schs, registered |-> regs]

ResolveFails(err) == Resolved(FALSE, err, NoString, components, schemas, registeredObjectTypes)

\* mutation of sameRegisteredType: every type counts as the one registered
sameRegisteredType_Always(name, ty) == TRUE

\* mutation of sameRegisteredType: the comparison is inverted
sameRegisteredType_Inverted(name, ty) == registeredObjectTypes[name] # ty

\* regType == objectType for the type registered under name
sameRegisteredType(name, ty) == registeredObjectTypes[name] = ty

\* addSchemaAndGetRef(objectType)
RECURSIVE addSchemaAndGetRef(_)
addSchemaAndGetRef(ty) ==
    IF ty.kind = "map" THEN ResolveFails("not implemented yet")
    ELSE IF ty.kind = "array" \/ ty.kind = "slice"
    THEN LET e == addSchemaAndGetRef(ty.elem)
         IN IF e.ok THEN [e EXCEPT !.val = ArraySchemaRef(e.val)] ELSE e
    ELSE IF ty.kind \in UnsupportedKinds THEN ResolveFails("object kind is not supported")
    ELSE IF ty.kind # "struct"
    THEN Resolved(TRUE, "", GeneratedSchema(ty), components, schemas, registeredObjectTypes)
    ELSE LET name == getObjectTypeName(ty) IN
         IF ~name.ok THEN ResolveFails(name.err)
         ELSE IF name.val \notin DOMAIN registeredObjectTypes
         THEN IF ty.cyclic
              THEN Resolved(FALSE, "error generating object schema", NoString,
                            "set", schemas, registeredObjectTypes)
              ELSE Resolved(TRUE, "", NamedRef(name.val), "set",
                            MapSet(schemas, name.val, GeneratedSchema(ty)),
                            MapSet(registeredObjectTypes, name.val, ty))
         ELSE IF ~sameRegisteredType(name.val, ty)
         THEN ResolveFails("object type name is already registered")
         ELSE Resolved(TRUE, "", NamedRef(name.val), components, schemas,
                       registeredObjectTypes)

(***************************************************************************)
(* OperationBuilder                                                        *)
(***************************************************************************)
Digits == <<"0","1","2","3","4","5","6","7","8","9">>

\* strconv.Itoa(n)
RECURSIVE Itoa(_)
Itoa(n) ==
    IF n < 0 THEN <<"-">> \o Itoa(-n)
    ELSE IF n < 10 THEN <<Digits[n + 1]>>
    ELSE Itoa(n \div 10) \o <<Digits[(n % 10) + 1]>>

\* http.StatusText(status) for the codes the model passes
StatusText(status) ==
    IF status = 200 THEN "OK"
    ELSE IF status = 404 THEN "Not Found"
    ELSE ""

Handles == 1..Len(ops)

\* the state a setter that panicked before writing leaves
SetterFails(op, err) ==
    /\ ret' = Outcome(op, Panic(err))
    /\ UNCHANGED <<ops, components, schemas, registeredObjectTypes, firstRef, textSet>>

\* what no setter writes
SetterFrame ==
    UNCHANGED <<operationIDs, schemaKeyPrefixesToTrim, built, t, paths, modPath,
                recordedBy>>

\* mutation of summaryIsSet: a summary never counts as set
summaryIsSet_Never(h) == FALSE

\* o.op.Summary != ""
summaryIsSet(h) == ops[h].Summary # ""

\* mutation of WithSummary: the registry's built flag is not looked at
WithSummary_Unguarded(h, summary) ==
    /\ arg' = [h |-> h, text |-> summary]
    /\ IF summaryIsSet(h)
       THEN SetterFails("WithSummary", "summary has already been set")
       ELSE /\ ops' = [ops EXCEPT ![h].Summary = summary]
            /\ ret' = Outcome("WithSummary", Return(h))
            /\ textSet' = textSet \cup {<<h, "Summary">>}
            /\ UNCHANGED <<components, schemas, registeredObjectTypes, firstRef>>
    /\ SetterFrame

\* WithSummary(summary) on handle h
WithSummary(h, summary) ==
    /\ arg' = [h |-> h, text |-> summary]
    /\ IF built THEN SetterFails("WithSummary", "cannot mutate already built registry")
       ELSE IF summaryIsSet(h)
       THEN SetterFails("WithSummary", "summary has already been set")
       ELSE /\ ops' = [ops EXCEPT ![h].Summary = summary]
            /\ ret' = Outcome("WithSummary", Return(h))
            /\ textSet' = textSet \cup {<<h, "Summary">>}
            /\ UNCHANGED <<components, schemas, registeredObjectTypes, firstRef>>
    /\ SetterFrame

\* WithTags(tags...) on handle h
WithTags(h, tags) ==
    /\ arg' = [h |-> h, tags |-> tags]
    /\ IF built THEN SetterFails("WithTags", "cannot mutate already built registry")
       ELSE /\ ops' = [ops EXCEPT ![h].Tags = @ \o tags]
            /\ ret' = Outcome("WithTags", Return(h))
            /\ UNCHANGED textSet
            /\ UNCHANGED <<components, schemas, registeredObjectTypes, firstRef>>
    /\ SetterFrame

\* WithDescription(description) on handle h
WithDescription(h, description) ==
    /\ arg' = [h |-> h, text |-> description]
    /\ IF built THEN SetterFails("WithDescription", "cannot mutate already built registry")
       ELSE IF ops[h].Description # ""
       THEN SetterFails("WithDescription", "description has already been set")
       ELSE /\ ops' = [ops EXCEPT ![h].Description = description]
            /\ ret' = Outcome("WithDescription", Return(h))
            /\ textSet' = textSet \cup {<<h, "Description">>}
            /\ UNCHANGED <<components, schemas, registeredObjectTypes, firstRef>>
    /\ SetterFrame

\* the type at the bottom of the slices and arrays of ty
RECURSIVE ElemType(_)
ElemType(ty) == IF ty.kind = "array" \/ ty.kind = "slice" THEN ElemType(ty.elem) ELSE ty

\* the reference at the bottom of the array schemas of ref
RECURSIVE ElemRef(_)
ElemRef(ref) == IF "array" \in DOMAIN ref THEN ElemRef(ref.array) ELSE ref

\* mutation of CatalogBecomes: the type of a new entry is not remembered
CatalogBecomes_SchemaOnly(ty, r) ==
    /\ components' = r.components
    /\ schemas' = r.schemas
    /\ UNCHANGED registeredObjectTypes
    /\ firstRef' = IF r.ok /\ ElemType(ty).kind = "struct"
                         /\ ElemType(ty) \notin DOMAIN firstRef
                   THEN MapSet(firstRef, ElemType(ty), ElemRef(r.val))
                   ELSE firstRef

\* the catalog addSchemaAndGetRef(ty) leaves, whether it returned or panicked;
\* the history keeps the reference a struct type got first
CatalogBecomes(ty, r) ==
    /\ components' = r.components
    /\ schemas' = r.schemas
    /\ registeredObjectTypes' = r.registered
    /\ firstRef' = IF r.ok /\ ElemType(ty).kind = "struct"
                         /\ ElemType(ty) \notin DOMAIN firstRef
                   THEN MapSet(firstRef, ElemType(ty), ElemRef(r.val))
                   ELSE firstRef

\* mutation of WithRequestBody: a body that is set is replaced
WithRequestBody_Overwrites(h, ty) ==
    /\ arg' = [h |-> h, type |-> ty]
    /\ IF built THEN SetterFails("WithRequestBody", "cannot mutate already built registry")
       ELSE LET r == addSchemaAndGetRef(ty) IN
            /\ CatalogBecomes(ty, r)
            /\ UNCHANGED textSet
            /\ IF ~r.ok
               THEN /\ ret' = Outcome("WithRequestBody", Panic(r.err))
                    /\ UNCHANGED ops
               ELSE /\ ops' = [ops EXCEPT ![h].RequestBody =
                                   [set |-> TRUE, required |-> TRUE, schema |-> r.val]]
                    /\ ret' = Outcome("WithRequestBody", Return(r.val))
    /\ SetterFrame

\* WithRequestBody(requestBodyType) on handle h
WithRequestBody(h, ty) ==
    /\ arg' = [h |-> h, type |-> ty]
    /\ IF built THEN SetterFails("WithRequestBody", "cannot mutate already built registry")
       ELSE IF ops[h].RequestBody.set
       THEN SetterFails("WithRequestBody", "request body has already been set")
       ELSE LET r == addSchemaAndGetRef(ty) IN
            /\ CatalogBecomes(ty, r)
            /\ UNCHANGED textSet
            /\ IF ~r.ok
               THEN /\ ret' = Outcome("WithRequestBody", Panic(r.err))
                    /\ UNCHANGED ops
               ELSE /\ ops' = [ops EXCEPT ![h].RequestBody =
                                   [set |-> TRUE, required |-> TRUE, schema |-> r.val]]
                    /\ ret' = Outcome("WithRequestBody", Return(r.val))
    /\ SetterFrame

\* mutation of responseIsSet: no status counts as registered
responseIsSet_Never(h, statusStr) == FALSE

\* o.op.Responses.Value(statusStr) != nil
responseIsSet(h, statusStr) == statusStr \in DOMAIN ops[h].Responses.m

\* addResponse(operation, status, response): the operation's Responses afterwards
addResponse(operation, status, response) ==
    [nil |-> FALSE, m |-> MapSet(operation.Responses.m, status, response)]

\* mutation of WithResponse: the range of the status is not tested
WithResponse_AnyStatus(h, status, description) ==
    /\ arg' = [h |-> h, status |-> status, text |-> description]
    /\ IF built THEN SetterFails("WithResponse", "cannot mutate already built registry")
       ELSE IF responseIsSet(h, Itoa(status))
       THEN SetterFails("WithResponse", "response has already been set")
       ELSE LET desc == IF description = "" THEN StatusText(status) ELSE description
                response == [description |-> desc, content |-> [set |-> FALSE]]
            IN /\ ops' = [ops EXCEPT ![h].Responses = addResponse(ops[h], Itoa(status), response)]
               /\ ret' = Outcome("WithResponse", Return(h))
               /\ UNCHANGED textSet
               /\ UNCHANGED <<components, schemas, registeredObjectTypes, firstRef>>
    /\ SetterFrame

\* WithResponse(status, description) on handle h
WithResponse(h, status, description) ==
    /\ arg' = [h |-> h, status |-> status, text |-> description]
    /\ IF built THEN SetterFails("WithResponse", "cannot mutate already built registry")
       ELSE IF status < 0 \/ status >= 600
       THEN SetterFails("WithResponse", "invalid http status code")
       ELSE IF responseIsSet(h, Itoa(status))
       THEN SetterFails("WithResponse", "response has already been set")
       ELSE LET desc == IF description = "" THEN StatusText(status) ELSE description
                response == [description |-> desc, content |-> [set |-> FALSE]]
            IN /\ ops' = [ops EXCEPT ![h].Responses = addResponse(ops[h], Itoa(status), response)]
               /\ ret' = Outcome("WithResponse", Return(h))
               /\ UNCHANGED textSet
               /\ UNCHANGED <<components, schemas, registeredObjectTypes, firstRef>>
    /\ SetterFrame

\* WithResponseWithContent(status, description, contentType) on handle h
WithResponseWithContent(h, status, description, ty) ==
    /\ arg' = [h |-> h, status |-> status, text |-> description, type |-> ty]
    /\ IF built
       THEN SetterFails("WithResponseWithContent", "cannot mutate already built registry")
       ELSE IF status < 0 \/ status >= 600
       THEN SetterFails("WithResponseWithContent", "invalid http status code")
       ELSE IF responseIsSet(h, Itoa(status))
       THEN SetterFails("WithResponseWithContent", "response has already been set")
       ELSE LET desc == IF description = "" THEN StatusText(status) ELSE description
                r == addSchemaAndGetRef(ty)
            IN /\ CatalogBecomes(ty, r)
               /\ UNCHANGED textSet
               /\ IF ~r.ok
                  THEN /\ ret' = Outcome("WithResponseWithContent", Panic(r.err))
                       /\ UNCHANGED ops
                  ELSE /\ ops' = [ops EXCEPT ![h].Responses =
                                      addResponse(ops[h], Itoa(status),
                                          [description |-> desc,
                                           content |-> [set |-> TRUE, schema |-> r.val]])]
                       /\ ret' = Outcome("WithResponseWithContent", Return(r.val))
    /\ SetterFrame

(***************************************************************************)
(* Handles. register refuses every free (method, path) (the test of        *)
(* *opRef at registry.go:243), so no behaviour of Spec issues a handle.    *)
(* The methods of OperationBuilder are therefore run from the registry     *)
(* that AddEndpoint(GET, /users) and AddEndpoint(POST, /users) build when  *)
(* register stores the operation: lines 106-111 and 246-248 applied twice  *)
(* to the registry of New.                                                 *)
(***************************************************************************)
InitIssued ==
    /\ operationIDs = {GetUsers, PostUsers}
    /\ registeredObjectTypes = EmptyMap
    /\ schemaKeyPrefixesToTrim = <<>>
    /\ built = FALSE
    /\ t = "doc"
    /\ paths = MapSet(EmptyMap, UsersPath,
                      [EmptyPathItem EXCEPT ![GET] = 1, ![POST] = 2])
    /\ components = "nil"
    /\ schemas = EmptyMap
    /\ ops = << [NewOperation EXCEPT !.OperationID = GetUsers],
                [NewOperation EXCEPT !.OperationID = PostUsers] >>
    /\ modPath = HostModPath
    /\ recordedBy = MapSet(MapSet(EmptyMap, GetUsers, [method |-> GET, path |-> UsersPath]),
                           PostUsers, [method |-> POST, path |-> UsersPath])
    /\ firstRef = EmptyMap
    /\ textSet = {}
    /\ arg = NoArg
    /\ ret = NoCall

\* bound on the tags one operation collects
MaxTags == 1

WithSummaryCall(texts) == \E h \in Handles, text \in texts : WithSummary(h, text)

WithDescriptionCall(texts) == \E h \in Handles, text \in texts : WithDescription(h, text)

WithTagsCall(tags) ==
    \E h \in Handles, tag \in tags :
        /\ Len(ops[h].Tags) < MaxTags
        /\ WithTags(h, <<tag>>)

WithRequestBodyCall(types) == \E h \in Handles, ty \in types : WithRequestBody(h, ty)

WithResponseCall(statuses, texts) ==
    \E h \in Handles, status \in statuses, text \in texts : WithResponse(h, status, text)

WithResponseWithContentCall(statuses, texts, types) ==
    \E h \in Handles, status \in statuses, text \in texts, ty \in types :
        WithResponseWithContent(h, status, text, ty)

\* struct types of the host module o/m; CUType of the root package and UType
\* of package c both get the name CU
UType == StructType(<<"o","/","m","/","c">>, <<"U">>, FALSE)
CUType == StructType(<<"o","/","m">>, <<"C","U">>, FALSE)
VType == StructType(<<"o","/","m","/","c">>, <<"V">>, FALSE)

(***************************************************************************)
(* SpecOps: every setter, AddEndpoint and BuildSpec                        *)
(***************************************************************************)
NextOps ==
    \/ WithSummaryCall({"a"})
    \/ WithDescriptionCall({"d"})
    \/ WithTagsCall({"t"})
    \/ WithRequestBodyCall({UType})
    \/ WithResponseCall({200}, {""})
    \/ WithResponseWithContentCall({200}, {"r"}, {UType})
    \/ AddEndpoint(GET, UsersPath)
    \/ BuildSpec

SpecOps == InitIssued /\ [][NextOps]_vars

(***************************************************************************)
(* SpecFields: the text fields and the tags                                *)
(***************************************************************************)
FieldTexts == {"", "a", "b"}

NextFields ==
    \/ WithSummaryCall(FieldTexts)
    \/ WithDescriptionCall(FieldTexts)
    \/ WithTagsCall({"t"})
    \/ BuildSpec

SpecFields == InitIssued /\ [][NextFields]_vars

(***************************************************************************)
(* SpecSchemas: struct types as request bodies and response contents       *)
(***************************************************************************)
SchemaTypes == {UType, VType, CUType, SliceOf(UType)}

NextSchemas ==
    \/ WithRequestBodyCall(SchemaTypes)
    \/ WithResponseWithContentCall({200}, {"r"}, SchemaTypes)
    \/ BuildSpec

SpecSchemas == InitIssued /\ [][NextSchemas]_vars

(***************************************************************************)
(* Claims about the handles                                                *)
(***************************************************************************)
MutatingCalls == {"AddEndpoint", "WithSummary", "WithTags", "WithDescription",
                  "WithRequestBody", "WithResponse", "WithResponseWithContent"}

\* C2 (SpecOps): once BuildSpec has returned, every call of AddEndpoint and
\* of a setter of a handle issued before it fails, and the document that
\* BuildSpec returned (paths, operations, component schemas) is not changed
C2_NoMutationAfterBuildSpec ==
    [][(built /\ ret'.op \in MutatingCalls)
       => (~ret'.ok /\ UNCHANGED <<paths, ops, components, schemas>>)]_vars

\* a setter of every kind has been refused on the built registry, here one
\* whose field the operation does not yet hold
C2_Witness ==
    /\ built /\ ret.op = "WithSummary" /\ ~ret.ok
    /\ ret.err = "cannot mutate already built registry"
    /\ ops[arg.h].Summary = ""
    /\ ops[arg.h].RequestBody.set

\* C8 as claimed (SpecFields): WithSummary fails once an earlier WithSummary
\* call set the summary of that operation, whatever strings the two calls
\* pass, and the first value is kept; WithDescription likewise
C8_SecondSetFails ==
    [][/\ (ret'.op = "WithSummary" /\ <<arg'.h, "Summary">> \in textSet)
          => (~ret'.ok /\ ops'[arg'.h].Summary = ops[arg'.h].Summary)
       /\ (ret'.op = "WithDescription" /\ <<arg'.h, "Description">> \in textSet)
          => (~ret'.ok /\ ops'[arg'.h].Description = ops[arg'.h].Description)]_vars

\* C8 as amended: WithSummary fails when the operation holds a non-empty
\* summary, whatever string the call passes, and that summary is kept; when
\* the summary held is empty (never set, or set to the empty string) the
\* call on an unbuilt registry succeeds and sets it; WithDescription likewise
C8_NonEmptyTextSetOnce ==
    [][/\ (ret'.op = "WithSummary" /\ ops[arg'.h].Summary # "")
          => (~ret'.ok /\ ops' = ops)
       /\ (ret'.op = "WithSummary" /\ ~built /\ ops[arg'.h].Summary = "")
          => (ret'.ok /\ ops'[arg'.h].Summary = arg'.text)
       /\ (ret'.op = "WithDescription" /\ ops[arg'.h].Description # "")
          => (~ret'.ok /\ ops' = ops)
       /\ (ret'.op = "WithDescription" /\ ~built /\ ops[arg'.h].Description = "")
          => (ret'.ok /\ ops'[arg'.h].Description = arg'.text)]_vars

C8_Witness ==
    /\ ret.op = "WithSummary" /\ ~ret.ok /\ ret.err = "summary has already been set"
    /\ arg.text = "b" /\ ops[arg.h].Summary = "a"

\* the step resolves the type of its call: the setter got as far as
\* addSchemaAndGetRef
ResolvesType ==
    \/ ret'.op = "WithRequestBody" /\ ~built /\ ~ops[arg'.h].RequestBody.set
    \/ /\ ret'.op = "WithResponseWithContent" /\ ~built
       /\ arg'.status >= 0 /\ arg'.status < 600
       /\ ~responseIsSet(arg'.h, Itoa(arg'.status))

\* the catalog holds exactly one entry for every struct type resolved so far
OneEntryPerType ==
    \A ty \in DOMAIN firstRef :
        Cardinality({n \in DOMAIN schemas : schemas[n] = GeneratedSchema(ty)}) = 1

\* C9 (SpecSchemas): resolving a struct type that was resolved before, as
\* request body or response content of any operation, returns the reference
\* it got first and leaves the catalog unchanged; the catalog holds exactly
\* one entry for the type
C9_SameTypeSameReference ==
    /\ []OneEntryPerType
    /\ [][(ResolvesType /\ ElemType(arg'.type) \in DOMAIN firstRef)
          => (/\ ret'.ok
              /\ ElemRef(ret'.val) = firstRef[ElemType(arg'.type)]
              /\ UNCHANGED <<components, schemas, registeredObjectTypes>>)]_vars

\* UType is the request body of the first operation and then the response
\* content of the second, with one reference and one catalog entry
C9_Witness ==
    /\ ret.op = "WithResponseWithContent" /\ ret.ok
    /\ arg.h = 2 /\ arg.type = UType
    /\ ops[1].RequestBody.set /\ ops[1].RequestBody.schema = ret.val
    /\ UType \in DOMAIN firstRef /\ firstRef[UType] = ret.val
    /\ Cardinality(DOMAIN schemas) = 1

\* the struct type the call resolves has the derived name of an entry that
\* remembers a different type
NameHeldByOtherType ==
    LET ty == ElemType(arg'.type) IN
    /\ ty.kind = "struct"
    /\ getObjectTypeName(ty).ok
    /\ getObjectTypeName(ty).val \in DOMAIN registeredObjectTypes
    /\ registeredObjectTypes[getObjectTypeName(ty).val] # ty

\* C11 (SpecSchemas): each catalog name maps to one originating type: the
\* entry of a name is the schema of the type remembered for it, until
\* BuildSpec no step changes the entry or the remembered type of a name, and
\* resolving a struct type whose derived name is held by a different type
\* fails with the naming collision and leaves the catalog unchanged
C11_OneTypePerName ==
    /\ [](\A n \in DOMAIN registeredObjectTypes :
             /\ n \in DOMAIN schemas
             /\ schemas[n] = GeneratedSchema(registeredObjectTypes[n]))
    /\ [][\A n \in DOMAIN registeredObjectTypes :
             ~built' => /\ n \in DOMAIN registeredObjectTypes'
                        /\ registeredObjectTypes'[n] = registeredObjectTypes[n]
                        /\ schemas'[n] = schemas[n]]_vars
    /\ [][(ResolvesType /\ NameHeldByOtherType)
          => (/\ ~ret'.ok
              /\ ret'.err = "object type name is already registered"
              /\ UNCHANGED <<components, schemas, registeredObjectTypes>>)]_vars

\* CUType was refused as a request body while the name CU is UType's
C11_Witness ==
    /\ ret.op = "WithRequestBody" /\ ~ret.ok
    /\ ret.err = "object type name is already registered"
    /\ arg.type = CUType
    /\ getObjectTypeName(CUType).val \in DOMAIN registeredObjectTypes
    /\ registeredObjectTypes[getObjectTypeName(CUType).val] = UType
    /\ schemas[getObjectTypeName(CUType).val] = GeneratedSchema(UType)
    /\ ~ops[arg.h].RequestBody.set

(***************************************************************************)
(* SpecResponses: responses of both setters over the edges of the status   *)
(* range                                                                   *)
(***************************************************************************)
ResponseStatuses == {-1, 0, 200, 599, 600, 999}

NextResponses ==
    \/ WithResponseCall(ResponseStatuses, {""})
    \/ WithResponseWithContentCall(ResponseStatuses, {"r"}, {UType})
    \/ BuildSpec

SpecResponses == InitIssued /\ [][NextResponses]_vars

(***************************************************************************)
(* Claims about the responses                                              *)
(***************************************************************************)
ResponseSetters == {"WithResponse", "WithResponseWithContent"}

\* the number a string of decimal digits writes, -1 for any other string
RECURSIVE DecimalValue(_)
DecimalValue(s) ==
    IF s = <<>> THEN -1
    ELSE LET d == CHOOSE k \in 0..10 : k = 10 \/ Digits[k + 1] = s[Len(s)]
         IN IF d = 10 THEN -1
            ELSE IF Len(s) = 1 THEN d
            ELSE LET hi == DecimalValue(SubSeq(s, 1, Len(s) - 1))
                 IN IF hi <= 0 THEN -1 ELSE 10 * hi + d

\* operation h holds a response for the status
StatusRegistered(h, status) ==
    \E s \in DOMAIN ops[h].Responses.m : DecimalValue(s) = status

\* C12 (SpecResponses): a WithResponse or WithResponseWithContent call for a
\* status the operation already holds a response for fails, whichever setter
\* registered that response; the operations and the catalog are unchanged;
\* a status the operation does not hold is registered by the call, whether
\* or not another operation holds it
C12_DuplicateStatusFails ==
    [][/\ (ret'.op \in ResponseSetters /\ StatusRegistered(arg'.h, arg'.status))
          => (/\ ~ret'.ok
              /\ ops' = ops
              /\ UNCHANGED <<components, schemas, registeredObjectTypes>>)
       /\ (/\ ret'.op \in ResponseSetters /\ ~built
           /\ arg'.status \in 0..599
           /\ ~StatusRegistered(arg'.h, arg'.status))
          => (/\ ret'.ok
              /\ \E s \in DOMAIN ops'[arg'.h].Responses.m : DecimalValue(s) = arg'.status
              /\ \A g \in Handles \ {arg'.h} : ops'[g] = ops[g])]_vars

\* WithResponseWithContent was refused for status 200 on the first operation,
\* whose response for 200 WithResponse registered; the second operation holds
\* a response for 200 as well, and the catalog is still empty
C12_Witness ==
    /\ ret.op = "WithResponseWithContent" /\ ~ret.ok
    /\ ret.err = "response has already been set"
    /\ arg.h = 1 /\ arg.status = 200
    /\ ~ops[1].Responses.m[<<"2","0","0">>].content.set
    /\ <<"2","0","0">> \in DOMAIN ops[2].Responses.m
    /\ schemas = EmptyMap

(***************************************************************************)
(* Claims about paths without the leading '/'                              *)
(***************************************************************************)

\* C13 (SpecID): identifier synthesis fails for every path that does not
\* begin with '/', the empty path included
C13_NoLeadingSlashFails ==
    (Generated /\ (arg.path = <<>> \/ arg.path[1] # "/")) => ~ret.ok

(***************************************************************************)
(* Claims about BuildSpec                                                  *)
(***************************************************************************)
\* C14 (Spec): BuildSpec hands out the non-nil document at most once: a call
\* on an unbuilt registry returns the document, with or without endpoints,
\* and marks the registry built; the mark is never taken back, and every
\* call on a built registry fails and returns nothing
C14_DocumentHandedOutOnce ==
    [][/\ (ret'.op = "BuildSpec" /\ ~built)
          => (ret'.ok /\ ret'.val = t /\ ret'.val # "nil" /\ built')
       /\ (ret'.op = "BuildSpec" /\ built)
          => (~ret'.ok /\ ret'.err = "registry is already built" /\ ret'.val = NoString)
       /\ (built => built')]_vars

\* a second BuildSpec was refused on a registry that was built without any
\* endpoint
C14_Witness ==
    /\ ret.op = "BuildSpec" /\ ~ret.ok /\ ret.err = "registry is already built"
    /\ built /\ t = "nil"
    /\ paths = EmptyMap /\ ops = <<>>

(***************************************************************************)
(* SpecCollections: arrays and slices of primitives and of structs         *)
(***************************************************************************)
CollectionTypes == {SliceOf(IntType), ArrayOf(SliceOf(IntType)),
                    SliceOf(UType), SliceOf(ArrayOf(VType))}

NextCollections ==
    \/ WithRequestBodyCall(CollectionTypes)
    \/ WithResponseWithContentCall({200}, {"r"}, CollectionTypes)
    \/ BuildSpec

SpecCollections == InitIssued /\ [][NextCollections]_vars

(***************************************************************************)
(* Claims about arrays and slices                                          *)
(***************************************************************************)
IsCollection(ty) == ty.kind \in {"array", "slice"}

\* the schema of ty when every array and slice is inlined: array schemas
\* down to the named reference of a struct or the schema of a primitive
RECURSIVE InlineSchemaOf(_)
InlineSchemaOf(ty) ==
    IF IsCollection(ty) THEN [array |-> InlineSchemaOf(ty.elem)]
    ELSE IF ty.kind = "struct" THEN NamedRef(getObjectTypeName(ty).val)
    ELSE GeneratedSchema(ty)

\* the catalog names a step may add when it resolves ty: the derived name of
\* the struct at the bottom of the collection, none for a primitive
ElementNames(ty) ==
    IF ElemType(ty).kind = "struct" THEN {getObjectTypeName(ElemType(ty)).val} ELSE {}

\* C15 (SpecCollections): no catalog entry is the schema of an array or
\* slice; resolving an array or slice returns an inline array schema whose
\* items are the resolved element type, adds no catalog entry when the
\* elements are primitives at any depth, and adds at most the entry of the
\* element struct otherwise
C15_CollectionsAreInlined ==
    /\ [](\A n \in DOMAIN schemas : ~IsCollection(schemas[n].schemaOf))
    /\ [][(ResolvesType /\ IsCollection(arg'.type))
          => (/\ ret'.ok
              /\ "array" \in DOMAIN ret'.val
              /\ ret'.val = InlineSchemaOf(arg'.type)
              /\ DOMAIN schemas' \ DOMAIN schemas \subseteq ElementNames(arg'.type)
              /\ ElementNames(arg'.type) \subseteq DOMAIN schemas'
              /\ \A n \in DOMAIN schemas : schemas'[n] = schemas[n]
              /\ ElemType(arg'.type).kind # "struct"
                    => UNCHANGED <<components, schemas, registeredObjectTypes>>)]_vars

\* an array of slices of integers became the request body of the second
\* operation and added nothing to the catalog, which holds only CU, the
\* element of the slice of UType that is the first operation's body
C15_Witness ==
    /\ ret.op = "WithRequestBody" /\ ret.ok
    /\ arg.h = 2 /\ arg.type = ArrayOf(SliceOf(IntType))
    /\ ops[2].RequestBody.schema = [array |-> [array |-> GeneratedSchema(IntType)]]
    /\ ops[1].RequestBody.set
    /\ ops[1].RequestBody.schema = [array |-> NamedRef(<<"C","U">>)]
    /\ DOMAIN schemas = {<<"C","U">>}
    /\ schemas[<<"C","U">>] = GeneratedSchema(UType)

(***************************************************************************)
(* Claims about the range of the status                                    *)
(***************************************************************************)
\* C16 (SpecResponses): WithResponse and WithResponseWithContent fail for a
\* status below 0 or at or above 600, as an invalid status on an unbuilt
\* registry, and change neither the operations nor the catalog; a status from
\* 0 to 599 the operation holds no response for is accepted, and the one key
\* the call adds to the operation's responses is the decimal string of the
\* status
C16_StatusRange ==
    [][/\ (ret'.op \in ResponseSetters /\ (arg'.status < 0 \/ arg'.status >= 600))
          => (/\ ~ret'.ok
              /\ ~built => ret'.err = "invalid http status code"
              /\ ops' = ops
              /\ UNCHANGED <<components, schemas, registeredObjectTypes>>)
       /\ (/\ ret'.op \in ResponseSetters /\ ~built
           /\ arg'.status >= 0 /\ arg'.status < 600
           /\ \A s \in DOMAIN ops[arg'.h].Responses.m : DecimalValue(s) # arg'.status)
          => (/\ ret'.ok
              /\ \E s \in DOMAIN ops'[arg'.h].Responses.m :
                    /\ DecimalValue(s) = arg'.status
                    /\ DOMAIN ops'[arg'.h].Responses.m
                          = DOMAIN ops[arg'.h].Responses.m \cup {s}
                    /\ s \notin DOMAIN ops[arg'.h].Responses.m)]_vars

\* status 999 was refused with a content type on an operation that holds the
\* responses of the statuses 0 and 599 under "0" and "599"; the catalog is
\* empty
C16_Witness ==
    /\ ret.op = "WithResponseWithContent" /\ ~ret.ok
    /\ ret.err = "invalid http status code"
    /\ arg.status = 999
    /\ DOMAIN ops[arg.h].Responses.m = {<<"0">>, <<"5","9","9">>}
    /\ schemas = EmptyMap /\ components = "nil"

(***************************************************************************)
(* SpecKinds: types of every kind addSchemaAndGetRef refuses, bare and as  *)
(* elements, next to a struct type                                         *)
(***************************************************************************)
KindTypes ==
    {UType, SliceOf(MapType), ArrayOf(PointerType)}
        \cup {[kind |-> k] : k \in {"map", "chan", "func", "interface", "ptr",
                                    "unsafeptr", "invalid"}}

NextKinds ==
    \/ WithRequestBodyCall(KindTypes)
    \/ WithResponseWithContentCall({200}, {"r"}, KindTypes)
    \/ BuildSpec

SpecKinds == InitIssued /\ [][NextKinds]_vars

(***************************************************************************)
(* Claims about the kinds that are refused                                 *)
(***************************************************************************)
TypeSetters == {"WithRequestBody", "WithResponseWithContent"}

RefusedKinds == {"map", "chan", "func", "interface", "ptr", "unsafeptr", "invalid"}

\* C17 (SpecKinds): a setter given a map, channel, function, interface,
\* pointer, unsafe pointer or invalid type, bare or as the element of arrays
\* and slices, fails; when the call resolves the type the failure is the one
\* of the kind (not implemented for a map, not supported for the others); the
\* catalog and the operations, so the calling operation's request body and
\* responses, are unchanged
C17_RefusedKindsFail ==
    [][(ret'.op \in TypeSetters /\ ElemType(arg'.type).kind \in RefusedKinds)
          => (/\ ~ret'.ok
              /\ ResolvesType
                    => ret'.err = IF ElemType(arg'.type).kind = "map"
                                  THEN "not implemented yet"
                                  ELSE "object kind is not supported"
              /\ ops' = ops
              /\ UNCHANGED <<components, schemas, registeredObjectTypes>>)]_vars

\* an array of pointers was refused as the request body of an operation that
\* has no body and keeps its response for 200 with the content UType; the
\* catalog holds only CU
C17_Witness ==
    /\ ret.op = "WithRequestBody" /\ ~ret.ok
    /\ ret.err = "object kind is not supported"
    /\ arg.type = ArrayOf(PointerType)
    /\ ~ops[arg.h].RequestBody.set
    /\ DOMAIN ops[arg.h].Responses.m = {<<"2","0","0">>}
    /\ ops[arg.h].Responses.m[<<"2","0","0">>].content.schema = NamedRef(<<"C","U">>)
    /\ DOMAIN schemas = {<<"C","U">>}

(***************************************************************************)
(* Claims about the derived name                                           *)
(***************************************************************************)
\* the organization of the host module: modPath up to and with its last '/'
HostOrg == Slice(modPath, 0, LastIndexByte(modPath, "/") + 1)

\* the type's package is the host module or a package below it
DeclaredInHostModule(pkgPath) ==
    pkgPath = modPath \/ HasPrefix(pkgPath, modPath \o <<"/">>)

\* the package path without the organization and, for a type of the host
\* module, without the module
LocalPkgPath(pkgPath) ==
    IF DeclaredInHostModule(pkgPath) THEN CutPrefix(pkgPath, modPath)
    ELSE CutPrefix(pkgPath, HostOrg)

\* the components of p between '/' and '-', each with its first letter in
\* upper case, one after the other
RECURSIVE PascalJoined(_, _)
PascalJoined(p, first) ==
    IF p = <<>> THEN <<>>
    ELSE IF Head(p) \in {"/", "-"} THEN PascalJoined(Tail(p), TRUE)
    ELSE <<IF first THEN ToUpper(Head(p)) ELSE Head(p)>> \o PascalJoined(Tail(p), FALSE)

\* C18 (SpecName): with no prefix to trim, the name of a struct type of the
\* host's organization is its package path without the organization and,
\* only for a type declared in the host module, without the module name, the
\* components Pascal-cased and joined, followed by the type name; a type of
\* another module of the organization keeps its module name whole
C18_NameFromLocalPath ==
    (/\ ret.op = "getObjectTypeName"
     /\ schemaKeyPrefixesToTrim = <<>>
     /\ LastIndexByte(modPath, "/") >= 0
     /\ HasPrefix(arg.type.pkgPath, HostOrg))
    => (/\ ret.ok
        /\ ret.val = PascalJoined(LocalPkgPath(arg.type.pkgPath), TRUE) \o arg.type.name)

(***************************************************************************)
(* SpecCatalog: types whose resolution succeeds next to types whose        *)
(* resolution fails: a cycle in the schema, a name held by another type, a *)
(* kind that is refused                                                    *)
(***************************************************************************)
CyclicType == StructType(<<"o","/","m","/","c">>, <<"W">>, TRUE)

CatalogTypes == {UType, CUType, CyclicType, PointerType, SliceOf(VType)}

NextCatalog ==
    \/ WithRequestBodyCall(CatalogTypes)
    \/ WithResponseWithContentCall({200}, {"r"}, CatalogTypes)
    \/ BuildSpec

SpecCatalog == InitIssued /\ [][NextCatalog]_vars

(***************************************************************************)
(* Claims about the catalog and the remembered types                       *)
(***************************************************************************)
\* C19 (SpecCatalog): until BuildSpec, the names that registeredObjectTypes
\* remembers a type for are the keys of the component schemas, in every
\* state, those after failed calls included
C19_NamesAreSchemaKeys ==
    ~built => DOMAIN registeredObjectTypes = DOMAIN schemas

\* the schema generator refused the cyclic type after UType was cataloged:
\* the names remembered and the schema keys are both CU
C19_Witness ==
    /\ ~built
    /\ ret.op \in TypeSetters /\ ~ret.ok
    /\ ret.err = "error generating object schema"
    /\ arg.type = CyclicType
    /\ components = "set"
    /\ DOMAIN schemas = {<<"C","U">>}
    /\ DOMAIN registeredObjectTypes = {<<"C","U">>}

(***************************************************************************)
(* Claims about the request body                                           *)
(***************************************************************************)
\* C20 (SpecCatalog): WithRequestBody on an operation whose body is set
\* fails and changes neither the operations nor the catalog; a call that
\* fails on an operation without a body leaves it without a body; and on an
\* unbuilt registry a call on an operation without a body, whatever calls
\* failed on it before, sets the body to the reference of its type when the
\* type resolves
C20_RequestBodySetOnce ==
    [][/\ (ret'.op = "WithRequestBody" /\ ops[arg'.h].RequestBody.set)
          => (/\ ~ret'.ok
              /\ ops' = ops
              /\ UNCHANGED <<components, schemas, registeredObjectTypes>>)
       /\ (ret'.op = "WithRequestBody" /\ ~ret'.ok /\ ~ops[arg'.h].RequestBody.set)
          => (ops' = ops /\ ~ops'[arg'.h].RequestBody.set)
       /\ (/\ ret'.op = "WithRequestBody" /\ ~built
           /\ ~ops[arg'.h].RequestBody.set
           /\ addSchemaAndGetRef(arg'.type).ok)
          => (/\ ret'.ok
              /\ ops'[arg'.h].RequestBody
                    = [set |-> TRUE, required |-> TRUE, schema |-> ret'.val]
              /\ ret'.val = InlineSchemaOf(arg'.type))]_vars

\* a slice of VType was refused as the second body of an operation whose
\* body is UType: the body is kept and V is not in the catalog
C20_Witness ==
    /\ ret.op = "WithRequestBody" /\ ~ret.ok
    /\ ret.err = "request body has already been set"
    /\ arg.type = SliceOf(VType)
    /\ ops[arg.h].RequestBody = [set |-> TRUE, required |-> TRUE,
                                 schema |-> NamedRef(<<"C","U">>)]
    /\ DOMAIN schemas = {<<"C","U">>}

====
